---- MODULE Spec2Model ----
(***************************************************************************)
(* Model of the badminton round-generation engine (lib/grouper.ts), its    *)
(* data types (lib/types.ts) and the calls its callers make on one         *)
(* MatchHistory object.                                                    *)
(*                                                                         *)
(* A JavaScript string is a sequence of UTF-16 code units (integers); a    *)
(* JavaScript object used as a map (Record<string, number>) is a function  *)
(* whose DOMAIN is the set of keys present.                                *)
(***************************************************************************)
EXTENDS Integers, Sequences, FiniteSets, TLC

VARIABLES history, op, players, playerCount, round, result, error, before,
          streak, recorded, rounds, activePlayers, toast, rendered, clicks

vars == <<history, op, players, playerCount, round, result, error, before,
          streak, recorded, rounds, activePlayers, toast, rendered, clicks>>

----------------------------------------------------------------------------
(* Bounds of the model.                                                    *)

\* Largest roster size (and player count) handed to the engine.
MaxPlayers == 9

\* Number of recordRound calls made on the history.
MaxRounds == 3

----------------------------------------------------------------------------
(* Strings.                                                                *)

\* The separator '-' of a pair key.
Dash == 45

Min(a, b) == IF a < b THEN a ELSE b

\* JavaScript's a < b on strings: lexicographic on code units, a proper
\* prefix being smaller.
StrLess(a, b) ==
    \E i \in 1..(Min(Len(a), Len(b)) + 1) :
        /\ \A j \in 1..(i - 1) : a[j] = b[j]
        /\ \/ i > Len(a) /\ i <= Len(b)
           \/ i <= Len(a) /\ i <= Len(b) /\ a[i] < b[i]

\* The decimal digits of a natural number, as code units ('0' is 48).
RECURSIVE Digits(_)
Digits(n) == IF n < 10 THEN <<48 + n>> ELSE Digits(n \div 10) \o <<48 + (n % 10)>>

\* pairKey without the comparison: a first.
pairKeyUnsorted(a, b) == a \o <<Dash>> \o b

\* pairKey(a, b): the two ids joined by '-', the smaller first.
pairKey(a, b) == IF StrLess(a, b) THEN a \o <<Dash>> \o b ELSE b \o <<Dash>> \o a

----------------------------------------------------------------------------
(* Players and rounds.                                                     *)

Player(id, name) == [id |-> id, name |-> name]

\* makePlayers(count): players p1 .. p<count> ('p' is 112).
makePlayers(count) ==
    [i \in 1..count |-> Player(<<112>> \o Digits(i), "Player " \o ToString(i))]

\* A roster whose ids hold the separator: "a", "b-c", "a-b", "c".  Ids are
\* opaque strings; a shared link may carry any string as an id.
dashPlayers ==
    << Player(<<97>>, "A"), Player(<<98, Dash, 99>>, "B"),
       Player(<<97, Dash, 98>>, "C"), Player(<<99>>, "D") >>

Side(ps) == [players |-> ps]
Court(s1, s2) == [side1 |-> Side(s1), side2 |-> Side(s2)]
Round(a, b, c, d) == [court1 |-> Court(a, b), court2 |-> Court(c, d)]

\* null: the value of bestRound before any candidate is retained.
NoRound == Round(<<>>, <<>>, <<>>, <<>>)

\* The four sides of a round in the order court1.side1, court1.side2,
\* court2.side1, court2.side2.
Sides(r) == << r.court1.side1.players, r.court1.side2.players,
               r.court2.side1.players, r.court2.side2.players >>

----------------------------------------------------------------------------
(* Match history.                                                          *)

\* Get with 1 for an absent key.
GetOrOne(m, k) == IF k \in DOMAIN m THEN m[k] ELSE 1

\* m[k] || 0
Get(m, k) == IF k \in DOMAIN m THEN m[k] ELSE 0

\* m[k] = v
Put(m, k, v) == [x \in (DOMAIN m) \cup {k} |-> IF x = k THEN v ELSE m[x]]

\* Whether object h has a property f (reading an absent one gives undefined).
HasField(h, f) == f \in DOMAIN h

createHistory == [singleCounts |-> <<>>, partnerCounts |-> <<>>, opponentCounts |-> <<>>]

\* recordSide without the partnerships.
recordSideSinglesOnly(h, side) ==
    LET ps == side.players
    IN  IF Len(ps) = 1
        THEN [h EXCEPT !.singleCounts = Put(@, ps[1].id, Get(@, ps[1].id) + 1)]
        ELSE h

\* The singles and partnerships of one side.
recordSide(h, side) ==
    LET ps == side.players
        h1 == IF Len(ps) = 1
              THEN [h EXCEPT !.singleCounts =
                        Put(@, ps[1].id, Get(@, ps[1].id) + 1)]
              ELSE h
    IN  IF Len(ps) = 2
        THEN [h1 EXCEPT !.partnerCounts =
                  Put(@, pairKey(ps[1].id, ps[2].id),
                      Get(@, pairKey(ps[1].id, ps[2].id)) + 1)]
        ELSE h1

\* recordOpponentsOf assigning a new object that holds the one key.
RECURSIVE recordOpponentsOfOverwrites(_, _, _, _)
recordOpponentsOfOverwrites(h, p1, side2, j) ==
    IF j > Len(side2) THEN h
    ELSE LET key == pairKey(p1.id, side2[j].id)
         IN  recordOpponentsOfOverwrites(
                 [h EXCEPT !.opponentCounts = Put(<<>>, key, Get(@, key) + 1)],
                 p1, side2, j + 1)

\* for (const p2 of court.side2.players), from index j on.
RECURSIVE recordOpponentsOf(_, _, _, _)
recordOpponentsOf(h, p1, side2, j) ==
    IF j > Len(side2) THEN h
    ELSE LET key == pairKey(p1.id, side2[j].id)
         IN  recordOpponentsOf(
                 [h EXCEPT !.opponentCounts = Put(@, key, Get(@, key) + 1)],
                 p1, side2, j + 1)

\* for (const p1 of court.side1.players), from index i on.
RECURSIVE recordOpponents(_, _, _, _)
recordOpponents(h, side1, side2, i) ==
    IF i > Len(side1) THEN h
    ELSE recordOpponents(recordOpponentsOf(h, side1[i], side2, 1), side1, side2, i + 1)

\* recordCourt without the opponents.
recordCourtSidesOnly(h, court) == recordSide(recordSide(h, court.side1), court.side2)

recordCourt(h, court) ==
    LET h1 == recordSide(h, court.side1)
        h2 == recordSide(h1, court.side2)
    IN  recordOpponents(h2, court.side1.players, court.side2.players, 1)

\* recordRound of court 1 alone.
recordRoundFirstCourt(h, r) == recordCourt(h, r.court1)

\* recordRound(history, round): the history object after the call.
recordRound(h, r) == recordCourt(recordCourt(h, r.court1), r.court2)

----------------------------------------------------------------------------
(* Court format.                                                           *)

NoError == [msg |-> "", count |-> 0]
Unsupported(n) == [msg |-> "Unsupported player count", count |-> n]
GenerationFailed == [msg |-> "Failed to generate round", count |-> 0]

Returned(v) == [error |-> NoError, value |-> v]
Thrown(e, v) == [error |-> e, value |-> v]

\* getCourtFormat with the two sides of court 1 exchanged for 5 players.
getCourtFormatSwapped(n) ==
    CASE n = 4 -> Returned(<<1, 1, 1, 1>>)
      [] n = 5 -> Returned(<<2, 1, 1, 1>>)
      [] n = 6 -> Returned(<<2, 2, 1, 1>>)
      [] n = 7 -> Returned(<<2, 2, 2, 1>>)
      [] n = 8 -> Returned(<<2, 2, 2, 2>>)
      [] OTHER -> Thrown(Unsupported(n), <<>>)

getCourtFormat(n) ==
    CASE n = 4 -> Returned(<<1, 1, 1, 1>>)
      [] n = 5 -> Returned(<<1, 2, 1, 1>>)
      [] n = 6 -> Returned(<<2, 2, 1, 1>>)
      [] n = 7 -> Returned(<<2, 2, 2, 1>>)
      [] n = 8 -> Returned(<<2, 2, 2, 2>>)
      [] OTHER -> Thrown(Unsupported(n), <<>>)

----------------------------------------------------------------------------
(* Scoring.                                                                *)

SINGLE_WEIGHT == 1000
PARTNER_WEIGHT == 100
OPPONENT_WEIGHT == 10

\* scoreSide with the partner weight for a single.
scoreSideFlat(h, side) ==
    LET ps == side.players
    IN  (IF Len(ps) = 1 THEN Get(h.singleCounts, ps[1].id) * PARTNER_WEIGHT ELSE 0)
      + (IF Len(ps) = 2
         THEN Get(h.partnerCounts, pairKey(ps[1].id, ps[2].id)) * PARTNER_WEIGHT
         ELSE 0)

scoreSide(h, side) ==
    LET ps == side.players
    IN  (IF Len(ps) = 1 THEN Get(h.singleCounts, ps[1].id) * SINGLE_WEIGHT ELSE 0)
      + (IF Len(ps) = 2
         THEN Get(h.partnerCounts, pairKey(ps[1].id, ps[2].id)) * PARTNER_WEIGHT
         ELSE 0)

\* scoreOpponentsOf with the single weight for an opponent pair.
RECURSIVE scoreOpponentsOfHeavy(_, _, _, _)
scoreOpponentsOfHeavy(h, p1, side2, j) ==
    IF j > Len(side2) THEN 0
    ELSE Get(h.opponentCounts, pairKey(p1.id, side2[j].id)) * SINGLE_WEIGHT
         + scoreOpponentsOfHeavy(h, p1, side2, j + 1)

RECURSIVE scoreOpponentsOf(_, _, _, _)
scoreOpponentsOf(h, p1, side2, j) ==
    IF j > Len(side2) THEN 0
    ELSE Get(h.opponentCounts, pairKey(p1.id, side2[j].id)) * OPPONENT_WEIGHT
         + scoreOpponentsOf(h, p1, side2, j + 1)

RECURSIVE scoreOpponents(_, _, _, _)
scoreOpponents(h, side1, side2, i) ==
    IF i > Len(side1) THEN 0
    ELSE scoreOpponentsOf(h, side1[i], side2, 1) + scoreOpponents(h, side1, side2, i + 1)

\* scoreCourt without the sides: opponents alone are scored.
scoreCourtOpponentsOnly(h, court) ==
    scoreOpponents(h, court.side1.players, court.side2.players, 1)

\* scoreCourt without the opponents: the sides alone are scored.
scoreCourtSidesOnly(h, court) == scoreSide(h, court.side1) + scoreSide(h, court.side2)

scoreCourt(h, court) ==
    scoreSide(h, court.side1) + scoreSide(h, court.side2)
    + scoreOpponents(h, court.side1.players, court.side2.players, 1)

\* scoreRound of court 1 alone.
scoreRoundFirstCourt(h, r) == scoreCourt(h, r.court1)

scoreRound(h, r) == scoreCourt(h, r.court1) + scoreCourt(h, r.court2)

----------------------------------------------------------------------------
(* Enumeration of the assignments.                                         *)

Range(s) == {s[i] : i \in 1..Len(s)}

\* [x, ...rest] for each rest of rests.
PrependEach(x, rests) == [j \in 1..Len(rests) |-> <<x>> \o rests[j]]

RECURSIVE combinations(_, _)
RECURSIVE combinationsFrom(_, _, _)

\* combinationsFrom with the loop bound i < arr.length - k.
RECURSIVE combinationsFromShort(_, _, _)
combinationsFromShort(arr, k, i) ==
    IF i > Len(arr) - k THEN <<>>
    ELSE PrependEach(arr[i], combinations(SubSeq(arr, i + 1, Len(arr)), k - 1))
         \o combinationsFromShort(arr, k, i + 1)

\* The iterations i, i+1, ... of the for loop of combinations (i is 1-based).
combinationsFrom(arr, k, i) ==
    IF i > Len(arr) - k + 1 THEN <<>>
    ELSE PrependEach(arr[i], combinations(SubSeq(arr, i + 1, Len(arr)), k - 1))
         \o combinationsFrom(arr, k, i + 1)

\* combinations(arr, k): what the generator yields, in order.
combinations(arr, k) ==
    IF k = 0 THEN << <<>> >>
    ELSE IF k > Len(arr) THEN <<>>
    ELSE combinationsFrom(arr, k, 1)

\* players.filter(p => !combo.includes(p))
remainingPlayers(ps, combo) == SelectSeq(ps, LAMBDA p : p \notin Range(combo))

RECURSIVE generateAssignments(_, _)
RECURSIVE assignmentsFrom(_, _, _, _)

\* The iterations c, c+1, ... of the loop over combos in generateAssignments.
assignmentsFrom(ps, sizes, combos, c) ==
    IF c > Len(combos) THEN <<>>
    ELSE PrependEach(combos[c],
                     generateAssignments(remainingPlayers(ps, combos[c]), Tail(sizes)))
         \o assignmentsFrom(ps, sizes, combos, c + 1)

\* generateAssignments(players, sizes): what the generator yields, in order.
generateAssignments(ps, sizes) ==
    IF Len(sizes) = 0 THEN << <<>> >>
    ELSE assignmentsFrom(ps, sizes, combinations(ps, Head(sizes)), 1)

\* assignmentToRound with groups[2] taken for both sides of court 2.
assignmentToRoundRepeats(groups) == Round(groups[1], groups[2], groups[3], groups[3])

\* assignmentToRound with the second and the third group exchanged.
assignmentToRoundCrossed(groups) == Round(groups[1], groups[3], groups[2], groups[4])

assignmentToRound(groups) == Round(groups[1], groups[2], groups[3], groups[4])

----------------------------------------------------------------------------
(* Selection.                                                              *)

\* A score, or Infinity.
Infinity == [finite |-> FALSE, value |-> 0]
Finite(s) == [finite |-> TRUE, value |-> s]
\* s <= bestScore: the last of the lowest candidates is retained.
LessOrEqual(s, best) == ~best.finite \/ s <= best.value

Less(s, best) == ~best.finite \/ s < best.value

\* The state of the loop of generateRound: the retained candidate, its score,
\* whether the loop has left by break, and how many candidates it has scored.
\* LoopStart with bestScore = 0.
LoopStartZero ==
    [bestRound |-> NoRound, bestScore |-> [finite |-> TRUE, value |-> 0],
     done |-> FALSE, examined |-> 0]

LoopStart == [bestRound |-> NoRound, bestScore |-> Infinity, done |-> FALSE, examined |-> 0]

\* loopBody whose break is not under if (s === 0).
loopBodyBreaks(acc, h, assignment) ==
    LET r == assignmentToRound(assignment)
        s == scoreRound(h, r)
    IN  IF Less(s, acc.bestScore)
        THEN [bestRound |-> r, bestScore |-> Finite(s), done |-> TRUE,
              examined |-> acc.examined + 1]
        ELSE [acc EXCEPT !.examined = @ + 1]

\* One iteration of the loop body, on candidate `assignment`.
loopBody(acc, h, assignment) ==
    LET r == assignmentToRound(assignment)
        s == scoreRound(h, r)
    IN  IF Less(s, acc.bestScore)
        THEN [bestRound |-> r, bestScore |-> Finite(s), done |-> (s = 0),
              examined |-> acc.examined + 1]
        ELSE [acc EXCEPT !.examined = @ + 1]

\* The iterations lo..hi of the loop over the candidates, in order, from loop
\* state acc; after break no further candidate is taken.
RECURSIVE loopOver(_, _, _, _, _)
loopOver(acc, h, cands, lo, hi) ==
    IF acc.done \/ lo > hi THEN acc
    ELSE IF lo = hi THEN loopBody(acc, h, cands[lo])
    ELSE LET mid == (lo + hi) \div 2
         IN  loopOver(loopOver(acc, h, cands, lo, mid), h, cands, mid + 1, hi)

\* generateRound without the check of the count, the format of an unsupported
\* count being that of 4 players.
generateRoundUnchecked(ps, h) ==
    LET format == IF getCourtFormat(Len(ps)).error = NoError
                  THEN getCourtFormat(Len(ps)).value
                  ELSE <<1, 1, 1, 1>>
        cands == generateAssignments(ps, format)
        fin == loopOver(LoopStart, h, cands, 1, Len(cands))
    IN  IF fin.bestRound = NoRound
        THEN [error |-> GenerationFailed, value |-> NoRound, examined |-> fin.examined]
        ELSE [error |-> NoError, value |-> fin.bestRound, examined |-> fin.examined]

\* generateRound(players, history): the round returned or the error thrown,
\* and the number of candidates scored.
generateRound(ps, h) ==
    LET count == Len(ps)
    IN  IF count < 4 \/ count > 8
        THEN [error |-> Unsupported(count), value |-> NoRound, examined |-> 0]
        ELSE LET format == getCourtFormat(count)
             IN  IF format.error # NoError
                 THEN [error |-> format.error, value |-> NoRound, examined |-> 0]
                 ELSE LET cands == generateAssignments(ps, format.value)
                          fin == loopOver(LoopStart, h, cands, 1, Len(cands))
                      IN  IF fin.bestRound = NoRound
                          THEN [error |-> GenerationFailed, value |-> NoRound,
                                examined |-> fin.examined]
                          ELSE [error |-> NoError, value |-> fin.bestRound,
                                examined |-> fin.examined]

\* roundPlayerIds(round): the set of ids in the round.
roundPlayerIds(r) == UNION {{p.id : p \in Range(Sides(r)[k])} : k \in 1..4}

\* courtLabel(court): "<n>v<m>", as the pair of the two lengths.
courtLabel(court) == <<Len(court.side1.players), Len(court.side2.players)>>

----------------------------------------------------------------------------
(* The state of the App component, used where the component is mounted:    *)
(* activePlayers is the set of ids selected, toast the message shown, and  *)
(* rendered the state values the last render has captured in the handlers  *)
(* and shown in the page.                                                  *)

\* The values of a render: the state it has read.
Render(ps, active, rs, h) ==
    [players |-> ps, activePlayers |-> active, rounds |-> rs, history |-> h]

\* No component is mounted.
NoApp ==
    /\ activePlayers = {}
    /\ toast = ""
    /\ rendered = Render(<<>>, {}, <<>>, createHistory)
    /\ clicks = 0

----------------------------------------------------------------------------
(* A session: the calls a caller makes with one roster on one history.     *)
(*                                                                         *)
(* players is the caller's roster and history the MatchHistory object it   *)
(* owns.  op names the call that returned last ("idle": none pending);     *)
(* playerCount and round are its arguments, round also the round that      *)
(* generateRound returned; result is the value returned and error the      *)
(* error thrown.  before is the history as it was when the call was made   *)
(* (for consecutive recordRound calls with one round: when the first was   *)
(* made), streak the number of those consecutive calls, recorded the       *)
(* number of recordRound calls so far.  rounds is the list of the rounds   *)
(* a loop of generateRound and recordRound calls has generated.            *)

\* Rounds built by hand: records singles correctly; records partnerships
\* correctly for 2v2; singles penalty > partner penalty > opponent penalty.
testRounds ==
    LET p == makePlayers(6)
    IN  { Round(<<p[1]>>, <<p[2]>>, <<p[3]>>, <<p[4]>>),
          Round(<<p[1], p[2]>>, <<p[3], p[4]>>, <<p[1]>>, <<p[2]>>),
          Round(<<p[1], p[2]>>, <<p[3], p[4]>>, <<p[5]>>, <<p[6]>>) }

\* The rosters a session may have.
Rosters == {makePlayers(n) : n \in 0..MaxPlayers} \cup {dashPlayers}

\* The player counts handed to getCourtFormat.
PlayerCounts == (0 - 1)..MaxPlayers

Init ==
    /\ players \in Rosters
    /\ history = createHistory
    /\ op = "idle"
    /\ playerCount = 0
    /\ round = NoRound
    /\ result = <<>>
    /\ error = NoError
    /\ before = createHistory
    /\ streak = 0
    /\ recorded = 0
    /\ rounds = <<>>
    /\ NoApp

GetCourtFormat(n) ==
    /\ op = "idle"
    /\ \E r \in {getCourtFormat(n)} :
           /\ result' = r.value
           /\ error' = r.error
    /\ op' = "getCourtFormat"
    /\ playerCount' = n
    /\ before' = history
    /\ UNCHANGED <<history, players, round, streak, recorded, rounds,
                 activePlayers, toast, rendered, clicks>>

ScoreRound(r) ==
    /\ \/ op = "idle" /\ r \in testRounds
       \/ op = "generateRound" /\ error = NoError /\ r = round
    /\ op' = "scoreRound"
    /\ round' = r
    /\ result' = scoreRound(history, r)
    /\ error' = NoError
    /\ before' = history
    /\ UNCHANGED <<history, players, playerCount, streak, recorded, rounds,
                 activePlayers, toast, rendered, clicks>>

\* GenerateRound recording the round it returns.
GenerateRoundRecords ==
    /\ op = "idle"
    /\ \E g \in {generateRound(players, history)} :
           /\ round' = g.value
           /\ error' = g.error
           /\ result' = g.examined
           /\ history' = IF g.error = NoError THEN recordRound(history, g.value)
                         ELSE history
    /\ op' = "generateRound"
    /\ before' = history
    /\ UNCHANGED <<players, playerCount, streak, recorded, rounds,
                 activePlayers, toast, rendered, clicks>>

GenerateRound ==
    /\ op = "idle"
    /\ \E g \in {generateRound(players, history)} :
           /\ round' = g.value
           /\ error' = g.error
           /\ result' = g.examined
    /\ op' = "generateRound"
    /\ before' = history
    /\ UNCHANGED <<history, players, playerCount, streak, recorded, rounds,
                 activePlayers, toast, rendered, clicks>>

RecordRound(r) ==
    /\ recorded < MaxRounds
    /\ \/ op = "idle" /\ r \in testRounds
       \/ op = "generateRound" /\ error = NoError /\ r = round
       \/ op = "recordRound" /\ streak < 2 /\ r = round
    /\ history' = recordRound(history, r)
    /\ op' = "recordRound"
    /\ round' = r
    /\ result' = <<>>
    /\ error' = NoError
    /\ before' = IF op = "recordRound" THEN before ELSE history
    /\ streak' = IF op = "recordRound" THEN streak + 1 ELSE 1
    /\ recorded' = recorded + 1
    /\ UNCHANGED <<players, playerCount, rounds,
                 activePlayers, toast, rendered, clicks>>

\* The caller has taken the result; nothing is pending.
Return ==
    /\ op # "idle"
    /\ op' = "idle"
    /\ playerCount' = 0
    /\ round' = NoRound
    /\ result' = <<>>
    /\ error' = NoError
    /\ before' = history
    /\ streak' = 0
    /\ UNCHANGED <<history, players, recorded, rounds,
                 activePlayers, toast, rendered, clicks>>

Next ==
    \/ \E n \in PlayerCounts : GetCourtFormat(n)
    \/ \E r \in testRounds \cup {round} : ScoreRound(r)
    \/ GenerateRound
    \/ \E r \in testRounds \cup {round} : RecordRound(r)
    \/ Return

Spec == Init /\ [][Next]_vars

----------------------------------------------------------------------------
(* A loop of rounds: with one roster and a history that starts empty, the  *)
(* caller generates a round, records it, and generates the next.           *)

\* Number of rounds a loop generates.
SessionRounds == 14

\* The rosters of the loops.
SessionRosters == {makePlayers(n) : n \in 4..8} \cup {dashPlayers}

SessionInit ==
    /\ players \in SessionRosters
    /\ history = createHistory
    /\ op = "idle"
    /\ playerCount = 0
    /\ round = NoRound
    /\ result = <<>>
    /\ error = NoError
    /\ before = createHistory
    /\ streak = 0
    /\ recorded = 0
    /\ rounds = <<>>
    /\ NoApp

\* const round = generateRound(players, history), the round kept in the list.
LoopGenerate ==
    /\ op \in {"idle", "recordRound"}
    /\ Len(rounds) < SessionRounds
    /\ \E g \in {generateRound(players, history)} :
           /\ round' = g.value
           /\ error' = g.error
           /\ result' = g.examined
           /\ rounds' = IF g.error = NoError THEN Append(rounds, g.value) ELSE rounds
    /\ op' = "generateRound"
    /\ before' = history
    /\ streak' = 0
    /\ UNCHANGED <<history, players, playerCount, recorded,
                 activePlayers, toast, rendered, clicks>>

\* recordRound(history, round)
LoopRecord ==
    /\ op = "generateRound"
    /\ error = NoError
    /\ history' = recordRound(history, round)
    /\ op' = "recordRound"
    /\ result' = <<>>
    /\ before' = history
    /\ streak' = 1
    /\ recorded' = recorded + 1
    /\ UNCHANGED <<players, playerCount, round, error, rounds,
                 activePlayers, toast, rendered, clicks>>

SessionNext ==
    \/ LoopGenerate
    \/ LoopRecord

SessionSpec == SessionInit /\ [][SessionNext]_vars

----------------------------------------------------------------------------
(* Calls on histories written by hand: the caller fills the maps of a      *)
(* fresh history itself and then scores or generates a round.              *)

\* A map that holds value v at each key of keys.
Filled(keys, v) == [k \in keys |-> v]

\* The four pairs left without entries: p1-p2, p3-p4, p5-p6, p7-p8.
unusedPartners ==
    LET p == makePlayers(8)
    IN  {pairKey(p[i].id, p[i + 1].id) : i \in {1, 3, 5, 7}}

\* history.roundsPlayed = 20; every pair of p1..p8 outside unusedPartners has
\* partnerCounts 1 and opponentCounts 15.
partnerAvoidanceHistory ==
    LET p == makePlayers(8)
        keys == {pairKey(p[i].id, p[j].id) : i, j \in 1..8} \ unusedPartners
        used == {k \in keys : \E i, j \in 1..8 : i < j /\ k = pairKey(p[i].id, p[j].id)}
    IN  [singleCounts |-> <<>>,
         partnerCounts |-> Filled(used, 1),
         opponentCounts |-> Filled(used, 15),
         roundsPlayed |-> 20]

\* The histories written by hand: singleCounts of p1; partnerCounts of p1-p2;
\* opponentCounts of p1-p2; singleCounts of p1 and p7; singleCounts of p5;
\* opponentCounts of p1-p3; the history of the partner-avoidance case.
testHistories ==
    LET p == makePlayers(7)
    IN  { [createHistory EXCEPT !.singleCounts = Filled({p[1].id}, 1)],
          [createHistory EXCEPT !.partnerCounts = Filled({pairKey(p[1].id, p[2].id)}, 1)],
          [createHistory EXCEPT !.opponentCounts = Filled({pairKey(p[1].id, p[2].id)}, 1)],
          [createHistory EXCEPT !.singleCounts = Filled({p[1].id, p[7].id}, 1)],
          [createHistory EXCEPT !.singleCounts = Filled({p[5].id}, 1)],
          [createHistory EXCEPT !.opponentCounts = Filled({pairKey(p[1].id, p[3].id)}, 1)],
          partnerAvoidanceHistory }

\* makeRoundWithSingle(singlePlayer) over p1..p7: the others in roster order
\* two by two, the single alone on the last side.
makeRoundWithSingle(singlePlayer) ==
    LET rest == SelectSeq(makePlayers(7), LAMBDA p : p # singlePlayer)
    IN  Round(<<rest[1], rest[2]>>, <<rest[3], rest[4]>>,
              <<rest[5], rest[6]>>, <<singlePlayer>>)

\* The rounds scored on the histories written by hand.
scoredRounds ==
    testRounds \cup {makeRoundWithSingle(makePlayers(7)[1]),
                     makeRoundWithSingle(makePlayers(7)[7])}

\* The rosters of these calls.
TestRosters == {makePlayers(n) : n \in {4, 6, 7, 8}}

TestInit ==
    /\ players \in TestRosters
    /\ history \in testHistories
    /\ op = "idle"
    /\ playerCount = 0
    /\ round = NoRound
    /\ result = <<>>
    /\ error = NoError
    /\ before = history
    /\ streak = 0
    /\ recorded = 0
    /\ rounds = <<>>
    /\ NoApp

\* scoreRound(history, r) on a round built by hand.
ScoreTestRound(r) ==
    /\ op = "idle"
    /\ r \in scoredRounds
    /\ op' = "scoreRound"
    /\ round' = r
    /\ result' = scoreRound(history, r)
    /\ error' = NoError
    /\ before' = history
    /\ UNCHANGED <<history, players, playerCount, streak, recorded, rounds,
                 activePlayers, toast, rendered, clicks>>

TestNext ==
    \/ GenerateRound
    \/ \E r \in scoredRounds : ScoreTestRound(r)
    \/ Return

TestSpec == TestInit /\ [][TestNext]_vars

----------------------------------------------------------------------------
(* Calls of pairKey on two ids.                                            *)

\* The ids of these calls: "", "a", "b", "c", "x", "-", "a-b", "b-c", "a-",
\* "-b", "p1", "p10".
KeyIds ==
    { <<>>, <<97>>, <<98>>, <<99>>, <<120>>, <<Dash>>, <<97, Dash, 98>>,
      <<98, Dash, 99>>, <<97, Dash>>, <<Dash, 98>>, <<112, 49>>, <<112, 49, 48>> }

\* players holds the two participants whose ids are the arguments.
KeyInit ==
    /\ players \in {<<Player(a, "A"), Player(b, "B")>> : a, b \in KeyIds}
    /\ history = createHistory
    /\ op = "idle"
    /\ playerCount = 0
    /\ round = NoRound
    /\ result = <<>>
    /\ error = NoError
    /\ before = createHistory
    /\ streak = 0
    /\ recorded = 0
    /\ rounds = <<>>
    /\ NoApp

\* pairKey(players[0].id, players[1].id)
PairKey ==
    /\ op = "idle"
    /\ op' = "pairKey"
    /\ result' = pairKey(players[1].id, players[2].id)
    /\ error' = NoError
    /\ before' = history
    /\ UNCHANGED <<history, players, playerCount, round, streak, recorded, rounds,
                 activePlayers, toast, rendered, clicks>>

KeyNext ==
    \/ PairKey
    \/ Return

KeySpec == KeyInit /\ [][KeyNext]_vars

----------------------------------------------------------------------------
(* The App component.  A handler reads the state values its render has     *)
(* captured (rendered); a state setter called with a value replaces the    *)
(* state, one called with a function applies it to the current state.      *)
(* Until the component renders again, the handlers and the page are those  *)
(* of the last render.                                                     *)
(* The share button, which shows toasts of its own and changes no other   *)
(* state, is left out.                                                    *)

\* Number of clicks of the user in a session of the component.
AppClicks == 4

\* players.filter(p => activePlayers.has(p.id))
activePlayerList(ps, active) == SelectSeq(ps, LAMBDA p : p.id \in active)

\* activeCount >= 3 && activeCount <= 8
canGenerateFromThree(activeCount) == activeCount >= 3 /\ activeCount <= 8

\* activeCount >= 4 && activeCount <= 8
canGenerate(activeCount) == activeCount >= 4 /\ activeCount <= 8

\* The active players, their number and the state of the Next Round button
\* in the last render.
renderedActiveList == activePlayerList(rendered.players, rendered.activePlayers)
renderedActiveCount == Len(renderedActiveList)
NextRoundEnabled == canGenerate(renderedActiveCount)

\* The rosters loadPlayers or a shared link can deliver.
LoadedRosters == {makePlayers(n) : n \in {0, 3, 8}}

\* The player addPlayer creates: generateId gives an id not in use, here that
\* of the first of p1, p2, ... who is not in the list.
newPlayer(ps) ==
    LET pool == makePlayers(MaxPlayers)
        free == {i \in 1..MaxPlayers : pool[i] \notin Range(ps)}
    IN  pool[CHOOSE i \in free : \A j \in free : i <= j]

\* The chips the user clicks: the first of the list to toggle, the last to
\* remove.
ToggleChips(ps) == IF Len(ps) = 0 THEN {} ELSE {ps[1].id}
RemoveChips(ps) == IF Len(ps) = 0 THEN {} ELSE {ps[Len(ps)].id}

\* The first render: every state has its initial value.
AppInit ==
    /\ players = <<>>
    /\ activePlayers = {}
    /\ history = createHistory
    /\ rounds = <<>>
    /\ toast = ""
    /\ rendered = Render(<<>>, {}, <<>>, createHistory)
    /\ clicks = 0
    /\ op = "mount"
    /\ playerCount = 0
    /\ round = NoRound
    /\ result = <<>>
    /\ error = NoError
    /\ before = createHistory
    /\ streak = 0
    /\ recorded = 0

\* The effect run on mount: setPlayers(loaded); setActivePlayers(all ids).
LoadPlayers ==
    /\ op = "mount"
    /\ \E loaded \in LoadedRosters :
           /\ players' = loaded
           /\ activePlayers' = {loaded[i].id : i \in 1..Len(loaded)}
    /\ op' = "useEffect"
    /\ UNCHANGED <<history, playerCount, round, result, error, before, streak,
                   recorded, rounds, toast, rendered, clicks>>

\* The component renders with the current state.
RenderApp ==
    /\ op # "mount"
    /\ rendered # Render(players, activePlayers, rounds, history)
    /\ rendered' = Render(players, activePlayers, rounds, history)
    /\ UNCHANGED <<history, op, players, playerCount, round, result, error, before,
                   streak, recorded, rounds, activePlayers, toast, clicks>>

addPlayer ==
    /\ op # "mount"
    /\ clicks < AppClicks
    /\ Len(players) < MaxPlayers
    /\ \E p \in {newPlayer(players)} :
           /\ players' = Append(players, p)
           /\ activePlayers' = activePlayers \cup {p.id}
    /\ op' = "addPlayer"
    /\ clicks' = clicks + 1
    /\ UNCHANGED <<history, playerCount, round, result, error, before, streak,
                   recorded, rounds, toast, rendered>>

removePlayer(id) ==
    /\ op # "mount"
    /\ clicks < AppClicks
    /\ id \in RemoveChips(rendered.players)
    /\ players' = SelectSeq(players, LAMBDA p : p.id # id)
    /\ activePlayers' = activePlayers \ {id}
    /\ op' = "removePlayer"
    /\ clicks' = clicks + 1
    /\ UNCHANGED <<history, playerCount, round, result, error, before, streak,
                   recorded, rounds, toast, rendered>>

togglePlayer(id) ==
    /\ op # "mount"
    /\ clicks < AppClicks
    /\ id \in ToggleChips(rendered.players)
    /\ activePlayers' = IF id \in activePlayers THEN activePlayers \ {id}
                        ELSE activePlayers \cup {id}
    /\ op' = "togglePlayer"
    /\ clicks' = clicks + 1
    /\ UNCHANGED <<history, players, playerCount, round, result, error, before,
                   streak, recorded, rounds, toast, rendered>>

\* The click on Next Round: the button is enabled in the page, and the handler
\* of the last render runs on the list and the history that render captured.
handleGenerate ==
    /\ op # "mount"
    /\ clicks < AppClicks
    /\ NextRoundEnabled
    /\ \E g \in {generateRound(renderedActiveList, rendered.history)} :
           /\ round' = g.value
           /\ error' = g.error
           /\ IF g.error = NoError
              THEN /\ history' = recordRound(rendered.history, g.value)
                   /\ rounds' = <<g.value>> \o rounds
                   /\ toast' = toast
              ELSE /\ toast' = "Could not generate round"
                   /\ UNCHANGED <<history, rounds>>
    /\ op' = "handleGenerate"
    /\ clicks' = clicks + 1
    /\ UNCHANGED <<players, playerCount, result, before, streak, recorded,
                   activePlayers, rendered>>

\* The click on Reset Session, shown when the rendered list of rounds is not
\* empty.
handleReset ==
    /\ op # "mount"
    /\ clicks < AppClicks
    /\ Len(rendered.rounds) > 0
    /\ rounds' = <<>>
    /\ history' = createHistory
    /\ op' = "handleReset"
    /\ clicks' = clicks + 1
    /\ UNCHANGED <<players, playerCount, round, result, error, before, streak,
                   recorded, activePlayers, toast, rendered>>

AppNext ==
    \/ LoadPlayers
    \/ RenderApp
    \/ addPlayer
    \/ \E id \in RemoveChips(rendered.players) : removePlayer(id)
    \/ \E id \in ToggleChips(rendered.players) : togglePlayer(id)
    \/ handleGenerate
    \/ handleReset

AppSpec == AppInit /\ [][AppNext]_vars

----------------------------------------------------------------------------
(* Vocabulary of the properties.                                           *)

Ids(ps) == {ps[i].id : i \in 1..Len(ps)}

DistinctIds(ps) == \A i, j \in 1..Len(ps) : ps[i].id = ps[j].id => i = j

\* The places (side, index) of a round.
Places(r) == {<<k, j>> \in (1..4) \X (1..MaxPlayers + 1) : j <= Len(Sides(r)[k])}

\* The number of places of round r that hold participant p.
Occurrences(r, p) == Cardinality({pl \in Places(r) : Sides(r)[pl[1]][pl[2]] = p})

TotalSize(r) ==
    Len(Sides(r)[1]) + Len(Sides(r)[2]) + Len(Sides(r)[3]) + Len(Sides(r)[4])

SupportedSize(ps) == Len(ps) >= 4 /\ Len(ps) <= 8

\* The subsets of S with k elements.
KSubsets(S, k) == {x \in SUBSET S : Cardinality(x) = k}

\* The members of a set, in some order.
RECURSIVE SetToSeq(_)
SetToSeq(S) ==
    IF S = {} THEN <<>>
    ELSE LET x == CHOOSE x \in S : TRUE IN <<x>> \o SetToSeq(S \ {x})

\* Every split of the set S of participants into four disjoint groups of
\* sizes sz, taken as a round, scores at least `least` on history h.
NoSplitScoresBelow(S, sz, h, least) ==
    \A a \in KSubsets(S, sz[1]) :
    \A b \in KSubsets(S \ a, sz[2]) :
    \A c \in KSubsets(S \ (a \cup b), sz[3]) :
    \A d \in KSubsets(S \ (a \cup b \cup c), sz[4]) :
        scoreRound(h, Round(SetToSeq(a), SetToSeq(b), SetToSeq(c), SetToSeq(d)))
            >= least

----------------------------------------------------------------------------
(* Properties.                                                             *)

\* C1: for a roster of 4 to 8 participants with pairwise distinct ids and any
\* history, generateRound returns a round in which every participant of the
\* roster holds exactly one place, so that roundPlayerIds is the roster's id
\* set and the four side sizes sum to the roster size.
C1_RoundCoversRoster ==
    (op = "generateRound" /\ SupportedSize(players) /\ DistinctIds(players)) =>
        /\ error = NoError
        /\ \A i \in 1..Len(players) : Occurrences(round, players[i]) = 1
        /\ roundPlayerIds(round) = Ids(players)
        /\ TotalSize(round) = Len(players)

C1_Witness ==
    /\ op = "generateRound"
    /\ Len(players) = 7
    /\ recorded = 2
    /\ error = NoError
    /\ Cardinality(roundPlayerIds(round)) = 7
    /\ \A i \in 1..7 : Occurrences(round, players[i]) = 1

\* C2: the round generateRound returns is globally optimal: no split of the
\* roster into four ordered groups of the resolved sizes scores strictly
\* lower on the history than the returned round.
C2_RoundIsOptimal ==
    (op = "generateRound" /\ SupportedSize(players)) =>
        /\ error = NoError
        /\ NoSplitScoresBelow(Range(players), getCourtFormat(Len(players)).value,
                              history, scoreRound(history, round))

\* The optimum is not 0 and not every split attains it.
C2_Witness ==
    /\ op = "generateRound"
    /\ error = NoError
    /\ Len(players) = 6
    /\ scoreRound(history, round) > 0
    /\ ~NoSplitScoresBelow(Range(players), getCourtFormat(6).value, history,
                           scoreRound(history, round) + 1)

\* C3: getCourtFormat(n) is (1,1,1,1) for 4, (1,2,1,1) for 5, (2,2,1,1) for 6,
\* (2,2,2,1) for 7 and (2,2,2,2) for 8, and fails with 'Unsupported player
\* count' for every other n.
C3_CourtFormatTable ==
    op = "getCourtFormat" =>
        /\ playerCount = 4 => error = NoError /\ result = <<1, 1, 1, 1>>
        /\ playerCount = 5 => error = NoError /\ result = <<1, 2, 1, 1>>
        /\ playerCount = 6 => error = NoError /\ result = <<2, 2, 1, 1>>
        /\ playerCount = 7 => error = NoError /\ result = <<2, 2, 2, 1>>
        /\ playerCount = 8 => error = NoError /\ result = <<2, 2, 2, 2>>
        /\ playerCount \notin 4..8 => error.msg = "Unsupported player count"

C3_Witness ==
    /\ op = "getCourtFormat"
    /\ playerCount = 5
    /\ result = <<1, 2, 1, 1>>
    /\ error = NoError

\* C4: generateRound with a roster of fewer than 4 or more than 8 participants
\* fails with the unsupported-size error, returns no round and leaves the
\* history as it was.
C4_UnsupportedRosterFails ==
    (op = "generateRound" /\ ~SupportedSize(players)) =>
        /\ error = Unsupported(Len(players))
        /\ round = NoRound
        /\ history = before

C4_Witness ==
    /\ op = "generateRound"
    /\ Len(players) = 9
    /\ recorded > 0
    /\ error.msg = "Unsupported player count"

\* C5: only recordRound writes the history: scoreRound and generateRound (and
\* every other call) leave every field of it as it was when they were called.
C5_OnlyRecordRoundWrites ==
    op # "recordRound" => history = before

\* generateRound has scored every candidate against a history that holds
\* counts, and the history is as before.
C5_Witness ==
    /\ op = "generateRound"
    /\ error = NoError
    /\ Len(players) = 4
    /\ result = 24
    /\ history # createHistory
    /\ history = before

\* The ids alone on a side of round r.
SingleIds(r) == {Sides(r)[k][1].id : k \in {k \in 1..4 : Len(Sides(r)[k]) = 1}}

\* The pair keys of the two-participant sides of round r.
PartnerKeys(r) ==
    {pairKey(Sides(r)[k][1].id, Sides(r)[k][2].id) :
        k \in {k \in 1..4 : Len(Sides(r)[k]) = 2}}

\* The pair keys of the pairs facing each other on a court.
CourtOpponentKeys(court) ==
    {pairKey(p.id, q.id) : p \in Range(court.side1.players),
                           q \in Range(court.side2.players)}

OpponentKeys(r) == CourtOpponentKeys(r.court1) \cup CourtOpponentKeys(r.court2)

\* Map m1 is map m0 with n added at the keys of `touched` and nothing else
\* changed.
AddedAt(m0, m1, touched, n) ==
    \A k \in (DOMAIN m0) \cup (DOMAIN m1) \cup touched :
        Get(m1, k) = Get(m0, k) + (IF k \in touched THEN n ELSE 0)

\* C6: recordRound adds 1 to singleCounts for exactly the participants alone
\* on a side, 1 to partnerCounts for exactly the pair keys of the
\* two-participant sides and 1 to opponentCounts for exactly the pairs facing
\* each other on a court; every other key of the three maps is unchanged.
C6_RecordAddsOne ==
    (op = "recordRound" /\ streak = 1) =>
        /\ AddedAt(before.singleCounts, history.singleCounts, SingleIds(round), 1)
        /\ AddedAt(before.partnerCounts, history.partnerCounts, PartnerKeys(round), 1)
        /\ AddedAt(before.opponentCounts, history.opponentCounts, OpponentKeys(round), 1)

\* C7: roundsPlayed is 0 in the history createHistory returns and grows by 1
\* with each recordRound call: after k calls it is k.
C7_RoundsPlayedCounts ==
    /\ HasField(history, "roundsPlayed")
    /\ history.roundsPlayed = recorded

\* C8: recordRound stamps lastSingleRound, lastPartnerRound and
\* lastOpponentRound of what it touches with the new round index, the value of
\* roundsPlayed after the call, so that no entry exceeds roundsPlayed.
C8_RecordStampsRecency ==
    op = "recordRound" =>
        /\ HasField(history, "roundsPlayed")
        /\ HasField(history, "lastSingleRound")
        /\ HasField(history, "lastPartnerRound")
        /\ HasField(history, "lastOpponentRound")
        /\ \A id \in SingleIds(round) :
               Get(history.lastSingleRound, id) = history.roundsPlayed
        /\ \A k \in PartnerKeys(round) :
               Get(history.lastPartnerRound, k) = history.roundsPlayed
        /\ \A k \in OpponentKeys(round) :
               Get(history.lastOpponentRound, k) = history.roundsPlayed
        /\ \A id \in DOMAIN history.lastSingleRound :
               history.lastSingleRound[id] <= history.roundsPlayed
        /\ \A k \in DOMAIN history.lastPartnerRound :
               history.lastPartnerRound[k] <= history.roundsPlayed
        /\ \A k \in DOMAIN history.lastOpponentRound :
               history.lastOpponentRound[k] <= history.roundsPlayed

CountMaps == {"singleCounts", "partnerCounts", "opponentCounts"}

\* C9: over any sequence of generateRound, scoreRound and recordRound calls on
\* one history, every entry of the three count maps is a natural number, is
\* absent (0) at the start and never decreases from one state to the next.
C9_CountsNeverDecrease ==
    [][ /\ recorded = 0 => \A m \in CountMaps : history[m] = <<>>
        /\ \A m \in CountMaps :
           \A k \in (DOMAIN history[m]) \cup (DOMAIN history'[m]) :
               /\ Get(history'[m], k) \in Nat
               /\ Get(history'[m], k) >= Get(history[m], k) ]_vars

\* Two calls have raised an entry from absent to 2 while other entries stayed.
C9_Witness ==
    /\ op = "recordRound"
    /\ streak = 2
    /\ recorded = 3
    /\ \E k \in DOMAIN history.opponentCounts :
           history.opponentCounts[k] = 2 /\ k \notin DOMAIN before.opponentCounts
    /\ \E k \in DOMAIN before.opponentCounts :
           history.opponentCounts[k] = before.opponentCounts[k]

\* C10: two recordRound calls with one round add 2 to every count the round
\* touches and advance roundsPlayed by 2.
C10_RecordTwiceDoubles ==
    (op = "recordRound" /\ streak = 2) =>
        /\ AddedAt(before.singleCounts, history.singleCounts, SingleIds(round), 2)
        /\ AddedAt(before.partnerCounts, history.partnerCounts, PartnerKeys(round), 2)
        /\ AddedAt(before.opponentCounts, history.opponentCounts, OpponentKeys(round), 2)
        /\ HasField(before, "roundsPlayed")
        /\ HasField(history, "roundsPlayed")
        /\ history.roundsPlayed = before.roundsPlayed + 2

\* Every split of the set S of participants into four disjoint groups of
\* sizes sz, taken as a round, scores exactly v on history h.
EverySplitScores(S, sz, h, v) ==
    \A a \in KSubsets(S, sz[1]) :
    \A b \in KSubsets(S \ a, sz[2]) :
    \A c \in KSubsets(S \ (a \cup b), sz[3]) :
    \A d \in KSubsets(S \ (a \cup b \cup c), sz[4]) :
        scoreRound(h, Round(SetToSeq(a), SetToSeq(b), SetToSeq(c), SetToSeq(d))) = v

\* C11: on the empty history createHistory returns, scoreRound is 0 for every
\* valid round of a roster of 4 to 8 participants, and so the round
\* generateRound returns for the empty history scores 0.
C11_EmptyHistoryScoresZero ==
    history = createHistory =>
        /\ SupportedSize(players) =>
               EverySplitScores(Range(players), getCourtFormat(Len(players)).value,
                                history, 0)
        /\ op = "scoreRound" => result = 0
        /\ (op = "generateRound" /\ error = NoError) => scoreRound(history, round) = 0

\* The round generated for 8 participants has been scored on the empty history.
C11_Witness ==
    /\ op = "scoreRound"
    /\ history = createHistory
    /\ Len(players) = 8
    /\ roundPlayerIds(round) = Ids(players)
    /\ result = 0

\* History h after one more single-play of id, partnership of pair key k, or
\* opponent-ship of pair key k, all else equal.
PriorSingle(h, id) == [h EXCEPT !.singleCounts = Put(@, id, Get(@, id) + 1)]
PriorPartner(h, k) == [h EXCEPT !.partnerCounts = Put(@, k, Get(@, k) + 1)]
PriorOpponent(h, k) == [h EXCEPT !.opponentCounts = Put(@, k, Get(@, k) + 1)]

\* What one more prior single-play, partnership or opponent-ship adds to the
\* score of round r on history h.
SinglePenalty(h, r, id) == scoreRound(PriorSingle(h, id), r) - scoreRound(h, r)
PartnerPenalty(h, r, k) == scoreRound(PriorPartner(h, k), r) - scoreRound(h, r)
OpponentPenalty(h, r, k) == scoreRound(PriorOpponent(h, k), r) - scoreRound(h, r)

\* C12: for the round just scored, one more prior single-play of a participant
\* alone on a side adds at least 1000 to the score, one more prior partnership
\* of a pair sharing a side at least 100, one more prior opponent-ship of a
\* pair facing each other at least 10; and the single penalty exceeds the
\* partner penalty, which exceeds the opponent penalty.
C12_PenaltyTiers ==
    op = "scoreRound" =>
        /\ \A id \in SingleIds(round) :
               scoreRound(PriorSingle(history, id), round) >= result + 1000
        /\ \A k \in PartnerKeys(round) :
               scoreRound(PriorPartner(history, k), round) >= result + 100
        /\ \A k \in OpponentKeys(round) :
               scoreRound(PriorOpponent(history, k), round) >= result + 10
        /\ \A id \in SingleIds(round) : \A k \in PartnerKeys(round) :
               SinglePenalty(history, round, id) > PartnerPenalty(history, round, k)
        /\ \A k \in PartnerKeys(round) : \A o \in OpponentKeys(round) :
               PartnerPenalty(history, round, k) > OpponentPenalty(history, round, o)
        /\ \A id \in SingleIds(round) : \A o \in OpponentKeys(round) :
               SinglePenalty(history, round, id) > OpponentPenalty(history, round, o)

\* A generated round with singles, partners and opponents has been scored on
\* a history that already holds counts.
C12_Witness ==
    /\ op = "scoreRound"
    /\ Len(players) = 7
    /\ roundPlayerIds(round) = Ids(players)
    /\ result > 0
    /\ \E id \in SingleIds(round) : \E k \in PartnerKeys(round) :
       \E o \in OpponentKeys(round) :
           /\ SinglePenalty(history, round, id) = 1000
           /\ PartnerPenalty(history, round, k) = 100
           /\ OpponentPenalty(history, round, o) = 10

\* singleCount of the participant of side s if it is alone there, else 0.
SideSingleCount(h, s) == IF Len(s) = 1 THEN Get(h.singleCounts, s[1].id) ELSE 0

\* partnerCount of the pair of side s if it holds two participants, else 0.
SidePartnerCount(h, s) ==
    IF Len(s) = 2 THEN Get(h.partnerCounts, pairKey(s[1].id, s[2].id)) ELSE 0

\* opponentCount of the pair (s1[i], s2[j]) if both places are held, else 0.
FacingCount(h, s1, s2, i, j) ==
    IF i <= Len(s1) /\ j <= Len(s2)
    THEN Get(h.opponentCounts, pairKey(s1[i].id, s2[j].id))
    ELSE 0

CourtOpponentCount(h, court) ==
    LET s1 == court.side1.players
        s2 == court.side2.players
    IN  FacingCount(h, s1, s2, 1, 1) + FacingCount(h, s1, s2, 1, 2)
        + FacingCount(h, s1, s2, 2, 1) + FacingCount(h, s1, s2, 2, 2)

\* The triple (sum of singleCount over the single players of r, sum of
\* partnerCount over its partner pairs, sum of opponentCount over its
\* opponent pairs).
Tiers(h, r) ==
    << SideSingleCount(h, Sides(r)[1]) + SideSingleCount(h, Sides(r)[2])
       + SideSingleCount(h, Sides(r)[3]) + SideSingleCount(h, Sides(r)[4]),
       SidePartnerCount(h, Sides(r)[1]) + SidePartnerCount(h, Sides(r)[2])
       + SidePartnerCount(h, Sides(r)[3]) + SidePartnerCount(h, Sides(r)[4]),
       CourtOpponentCount(h, r.court1) + CourtOpponentCount(h, r.court2) >>

\* Lexicographic order on triples.
LexLess(a, b) ==
    \/ a[1] < b[1]
    \/ a[1] = b[1] /\ a[2] < b[2]
    \/ a[1] = b[1] /\ a[2] = b[2] /\ a[3] < b[3]

\* The rounds over the set S of participants with side sizes sz.
Splits(S, sz) ==
    UNION {UNION {UNION {
        {Round(SetToSeq(a), SetToSeq(b), SetToSeq(c), SetToSeq(d)) :
            d \in KSubsets(S \ (a \cup b \cup c), sz[4])} :
        c \in KSubsets(S \ (a \cup b), sz[3])} :
        b \in KSubsets(S \ a, sz[2])} :
        a \in KSubsets(S, sz[1])}

\* C13: in a loop of generated and recorded rounds that starts on the empty
\* history, the round generateRound returns minimises lexicographically the
\* triple (singles sum, partners sum, opponents sum) among all candidate
\* rounds of the roster: no candidate is lower at a higher tier.
C13_TierDominance ==
    (op = "generateRound" /\ error = NoError) =>
        \A cand \in Splits(Range(players), getCourtFormat(Len(players)).value) :
            ~LexLess(Tiers(history, cand), Tiers(history, round))

\* The returned round repeats a single and a partner pair, and some candidate
\* with fewer repeated opponents is higher at the singles tier.
C13_Witness ==
    /\ op = "generateRound"
    /\ error = NoError
    /\ Len(players) = 6
    /\ Tiers(history, round)[1] > 0
    /\ Tiers(history, round)[2] > 0
    /\ \E cand \in Splits(Range(players), getCourtFormat(6).value) :
           /\ Tiers(history, cand)[3] < Tiers(history, round)[3]
           /\ Tiers(history, cand)[1] > Tiers(history, round)[1]

\* C14: for p1..p8 and the history in which every pair other than p1-p2,
\* p3-p4, p5-p6, p7-p8 has partnerCount 1 and opponentCount 15, the four
\* partner pairs of the round generateRound returns are all among those four
\* pairs: partner avoidance goes before opponent avoidance.
C14_PartnersBeforeOpponents ==
    (op = "generateRound" /\ error = NoError /\ players = makePlayers(8)
        /\ history = partnerAvoidanceHistory) =>
        PartnerKeys(round) \subseteq unusedPartners

\* Side s with participants p and q exchanged.
SwapIn(s, p, q) ==
    [i \in 1..Len(s) |-> IF s[i] = p THEN q ELSE IF s[i] = q THEN p ELSE s[i]]

\* Round r with participants p and q exchanged, all else identical.
SwapRound(r, p, q) ==
    Round(SwapIn(Sides(r)[1], p, q), SwapIn(Sides(r)[2], p, q),
          SwapIn(Sides(r)[3], p, q), SwapIn(Sides(r)[4], p, q))

\* The participants alone on a side of r, and those sharing a side.
SinglePlayers(r) == {Sides(r)[k][1] : k \in {k \in 1..4 : Len(Sides(r)[k]) = 1}}
PairedPlayers(r) == UNION {Range(Sides(r)[k]) : k \in {k \in 1..4 : Len(Sides(r)[k]) = 2}}

\* C15: of two candidate rounds identical except for which of two
\* participants with equal singleCount (both having played single) is alone
\* on a side, scoreRound is strictly lower for the one whose single
\* participant has the smaller lastSingleRound.
C15_RecencyBreaksTies ==
    op = "scoreRound" =>
        \A p \in SinglePlayers(round) :
        \A q \in PairedPlayers(round) \ SinglePlayers(round) :
            (/\ p \notin PairedPlayers(round)
             /\ Get(history.singleCounts, p.id) = Get(history.singleCounts, q.id)
             /\ Get(history.singleCounts, p.id) > 0) =>
                /\ HasField(history, "lastSingleRound")
                /\ Get(history.lastSingleRound, p.id) < Get(history.lastSingleRound, q.id)
                       => result < scoreRound(history, SwapRound(round, p, q))
                /\ Get(history.lastSingleRound, q.id) < Get(history.lastSingleRound, p.id)
                       => scoreRound(history, SwapRound(round, p, q)) < result

\* The pair keys of all unordered pairs of the roster ps.
AllPairKeys(ps) ==
    {pairKey(ps[i].id, ps[j].id) : <<i, j>> \in {x \in (1..Len(ps)) \X (1..Len(ps)) : x[1] < x[2]}}

C17_EighthRoundRecyclesFirst ==
    (Len(players) = 8 /\ Len(rounds) >= 8) =>
        PartnerKeys(rounds[8]) = PartnerKeys(rounds[1])

C17_Witness ==
    /\ Len(players) = 8
    /\ op = "generateRound"
    /\ recorded = 7
    /\ Len(rounds) = 8
    /\ round = rounds[8]
    /\ Cardinality(PartnerKeys(rounds[8])) = 4
    /\ \A i \in 2..7 : PartnerKeys(rounds[i]) \cap PartnerKeys(rounds[8]) = {}

\* C18: in a loop of rounds on 7 participants that starts on the empty
\* history, after 7 recorded rounds and again after 14 the largest and the
\* smallest singleCount of the participants (absent counting as 0) differ by
\* at most 1.
C18_SinglesSpreadAtMostOne ==
    (Len(players) = 7 /\ recorded \in {7, 14}) =>
        \A i, j \in 1..7 :
            Get(history.singleCounts, players[i].id)
                - Get(history.singleCounts, players[j].id) <= 1

C18_Witness ==
    /\ Len(players) = 7
    /\ op = "recordRound"
    /\ recorded = 14
    /\ \A i \in 1..7 : Get(history.singleCounts, players[i].id) = 2

\* The grouping of a round: its two courts, each the pair of its two sides,
\* a side taken as the set of its ids.
Grouping(r) ==
    { {Ids(r.court1.side1.players), Ids(r.court1.side2.players)},
      {Ids(r.court2.side1.players), Ids(r.court2.side2.players)} }

\* C19: for a roster of 4 to 8 participants and the empty history, generating
\* a round, recording it and generating again does not reproduce the
\* grouping: the second round has not the same two courts as the first.
C19_SecondRoundDiffers ==
    Len(rounds) >= 2 => Grouping(rounds[2]) # Grouping(rounds[1])

C19_Witness ==
    /\ Len(players) = 6
    /\ op = "generateRound"
    /\ recorded = 1
    /\ Len(rounds) = 2
    /\ round = rounds[2]
    /\ roundPlayerIds(rounds[2]) = roundPlayerIds(rounds[1])
    /\ Grouping(rounds[2]) # Grouping(rounds[1])

\* The groupings a call generateRound(ps, h) can return.  The code draws
\* nothing at random and keeps the roster order, so a call has one outcome.
PossibleGroupings(ps, h) == {Grouping(g.value) : g \in {generateRound(ps, h)}}

\* C20: generateRound permutes the roster at random before enumerating, so
\* that for a roster of 6 participants and the empty history more than one
\* grouping is a possible result.
C20_FirstRoundVaries ==
    (op = "generateRound" /\ Len(players) = 6 /\ history = createHistory) =>
        Cardinality(PossibleGroupings(players, history)) > 1

\* The binomial coefficient C(n, k).
RECURSIVE Choose(_, _)
Choose(n, k) ==
    IF k = 0 THEN 1
    ELSE IF k > n THEN 0
    ELSE (n * Choose(n - 1, k - 1)) \div k

\* An assignment with its groups taken as sets.
AsSets(groups) == [g \in 1..Len(groups) |-> Range(groups[g])]

\* The 4-tuples of pairwise disjoint subsets of S with sizes sz.
SplitSets(S, sz) ==
    UNION {UNION {UNION {
        {<<a, b, c, d>> : d \in KSubsets(S \ (a \cup b \cup c), sz[4])} :
        c \in KSubsets(S \ (a \cup b), sz[3])} :
        b \in KSubsets(S \ a, sz[2])} :
        a \in KSubsets(S, sz[1])}

\* C21: for a roster of n distinct participants, n in 4..8, with the resolved
\* sizes (s1,s2,s3,s4), generateAssignments yields every 4-tuple of pairwise
\* disjoint groups of those sizes covering the roster exactly once: a sequence
\* of C(n,s1)*C(n-s1,s2)*C(n-s1-s2,s3) candidates, 2520 for 8 participants;
\* a call that does not stop at a zero score examines them all.
C21_EnumeratorExhaustive ==
    (op = "generateRound" /\ SupportedSize(players) /\ DistinctIds(players)) =>
        \E sz \in {getCourtFormat(Len(players)).value} :
        \E cands \in {generateAssignments(players, sz)} :
        \E yielded \in {{AsSets(cands[i]) : i \in 1..Len(cands)}} :
            /\ Len(cands) = Choose(Len(players), sz[1])
                            * Choose(Len(players) - sz[1], sz[2])
                            * Choose(Len(players) - sz[1] - sz[2], sz[3])
            /\ Cardinality(yielded) = Len(cands)
            /\ yielded = SplitSets(Range(players), sz)
            /\ \A t \in yielded : t[1] \cup t[2] \cup t[3] \cup t[4] = Range(players)
            /\ Len(players) = 8 => Len(cands) = 2520
            /\ scoreRound(history, round) > 0 => result = Len(cands)

\* All 2520 candidates of 8 participants have been examined.
C21_Witness ==
    /\ op = "generateRound"
    /\ Len(players) = 8
    /\ error = NoError
    /\ result = 2520
    /\ Len(generateAssignments(players, getCourtFormat(8).value)) = 2520

\* C22: pairKey is symmetric: pairKey(a,b) equals pairKey(b,a) for all id
\* strings a and b, a equal to b included, and the call never fails; the key
\* is the two ids joined by '-'.
C22_PairKeySymmetric ==
    op = "pairKey" =>
        /\ error = NoError
        /\ result = pairKey(players[2].id, players[1].id)
        /\ result \in {players[1].id \o <<Dash>> \o players[2].id,
                       players[2].id \o <<Dash>> \o players[1].id}

\* The key of "a-b" and its prefix "a" is "a-a-b", whichever comes first.
C22_Witness ==
    /\ op = "pairKey"
    /\ players[1].id = <<97, Dash, 98>>
    /\ players[2].id = <<97>>
    /\ result = <<97, Dash, 97, Dash, 98>>

\* C23: pairKey is collision-free: for all id strings a, b, c, d (ids may
\* hold '-'), pairKey(a,b) equals pairKey(c,d) only if the unordered pairs
\* {a,b} and {c,d} are equal.
C23_PairKeyCollisionFree ==
    op = "pairKey" =>
        \A c, d \in KeyIds :
            pairKey(c, d) = result => {c, d} = {players[1].id, players[2].id}

\* C24: the generation-failed error is unreachable: for a roster of 4 to 8
\* participants and every history recordRound has produced, enumeration yields
\* a candidate that is retained, so generateRound returns a round and never
\* throws 'Failed to generate round'.
C24_GenerationNeverFails ==
    /\ error # GenerationFailed
    /\ (op = "generateRound" /\ SupportedSize(players)) =>
           /\ error = NoError
           /\ round # NoRound
           /\ result >= 1

\* Every candidate scores above 0 and one has been retained.
C24_Witness ==
    /\ op = "generateRound"
    /\ Len(players) = 5
    /\ recorded = 3
    /\ error = NoError
    /\ round # NoRound
    /\ result = 60
    /\ scoreRound(history, round) > 0

\* C25: the round generateRound returns for n participants has the side sizes
\* of getCourtFormat(n) in the order court1.side1, court1.side2, court2.side1,
\* court2.side2: the court labels are 1v1+1v1 for 4, 1v2+1v1 for 5, 2v2+1v1
\* for 6, 2v2+2v1 for 7, 2v2+2v2 for 8, with 4, 3, 2, 1, 0 single sides.
C25_SidesFollowFormat ==
    (op = "generateRound" /\ SupportedSize(players)) =>
        /\ <<Len(Sides(round)[1]), Len(Sides(round)[2]),
             Len(Sides(round)[3]), Len(Sides(round)[4])>>
               = getCourtFormat(Len(players)).value
        /\ <<courtLabel(round.court1), courtLabel(round.court2)>> =
               CASE Len(players) = 4 -> << <<1, 1>>, <<1, 1>> >>
                 [] Len(players) = 5 -> << <<1, 2>>, <<1, 1>> >>
                 [] Len(players) = 6 -> << <<2, 2>>, <<1, 1>> >>
                 [] Len(players) = 7 -> << <<2, 2>>, <<2, 1>> >>
                 [] Len(players) = 8 -> << <<2, 2>>, <<2, 2>> >>
        /\ Cardinality({k \in 1..4 : Len(Sides(round)[k]) = 1}) = 8 - Len(players)

C25_Witness ==
    /\ op = "generateRound"
    /\ Len(players) = 5
    /\ recorded = 1
    /\ courtLabel(round.court1) = <<1, 2>>
    /\ courtLabel(round.court2) = <<1, 1>>
    /\ Cardinality(SingleIds(round)) = 3

\* The scores of the candidates on history h, in enumeration order.
CandidateScores(cands, h) ==
    [i \in 1..Len(cands) |-> scoreRound(h, assignmentToRound(cands[i]))]

\* The least value of a non-empty sequence of numbers, and the first index
\* that holds it.
Least(scores) == CHOOSE v \in Range(scores) : \A w \in Range(scores) : v <= w
FirstAt(scores, v) ==
    CHOOSE i \in 1..Len(scores) : scores[i] = v /\ \A j \in 1..(i - 1) : scores[j] # v

\* C26: generateRound keeps the lowest-scoring candidate with first-seen
\* tie-break and stops at the first zero: the round returned is the earliest
\* candidate in enumeration order whose score is the minimum over all
\* candidates, and no candidate after the first one that scores 0 is examined.
C26_FirstSeenMinimum ==
    (op = "generateRound" /\ error = NoError) =>
        \E cands \in {generateAssignments(players, getCourtFormat(Len(players)).value)} :
        \E scores \in {CandidateScores(cands, history)} :
        \E first \in {FirstAt(scores, Least(scores))} :
            /\ round = assignmentToRound(cands[first])
            /\ result = IF scores[first] = 0 THEN first ELSE Len(cands)

\* The search has stopped at candidate 151 of 2520, the first that scores 0.
C26_Witness ==
    /\ op = "generateRound"
    /\ Len(players) = 8
    /\ recorded = 1
    /\ result = 151
    /\ scoreRound(history, round) = 0
    /\ round # rounds[1]

\* The pairs of ids facing each other in round r.
OpponentPairs(r) ==
    {{p.id, q.id} : p \in Range(r.court1.side1.players),
                    q \in Range(r.court1.side2.players)}
    \cup {{p.id, q.id} : p \in Range(r.court2.side1.players),
                         q \in Range(r.court2.side2.players)}

\* C27: in a loop of rounds on 4 participants that starts on the empty
\* history, no opponent pair is repeated within the first 3 rounds, so these
\* cover all 6 unordered pairs as opponents exactly once.
C27_ThreeRoundsCoverOpponents ==
    (Len(players) = 4 /\ DistinctIds(players)) =>
        /\ \A i, j \in 1..Min(Len(rounds), 3) :
               i < j => OpponentPairs(rounds[i]) \cap OpponentPairs(rounds[j]) = {}
        /\ Len(rounds) >= 3 =>
               /\ UNION {OpponentPairs(rounds[i]) : i \in 1..3} = KSubsets(Ids(players), 2)
               /\ Cardinality(UNION {OpponentPairs(rounds[i]) : i \in 1..3}) = 6
        /\ (recorded = 3 /\ Cardinality(AllPairKeys(players)) = 6) =>
               \A k \in AllPairKeys(players) : Get(history.opponentCounts, k) = 1

C27_Witness ==
    /\ players = makePlayers(4)
    /\ op = "recordRound"
    /\ recorded = 3
    /\ Cardinality(UNION {OpponentPairs(rounds[i]) : i \in 1..3}) = 6
    /\ \A k \in AllPairKeys(players) : Get(history.opponentCounts, k) = 1

\* C28: in a loop of rounds on 6 participants that starts on the empty
\* history, no participant is alone on a side a second time within the first
\* 3 rounds, so all 6 participants have singleCount 1 after round 3.
C28_ThreeRoundsRotateSingles ==
    (Len(players) = 6 /\ recorded <= 3) =>
        /\ \A i, j \in 1..Min(Len(rounds), 3) :
               i < j => SingleIds(rounds[i]) \cap SingleIds(rounds[j]) = {}
        /\ \A id \in Ids(players) : Get(history.singleCounts, id) <= 1
        /\ recorded = 3 => \A id \in Ids(players) : Get(history.singleCounts, id) = 1

C28_Witness ==
    /\ Len(players) = 6
    /\ op = "recordRound"
    /\ recorded = 3
    /\ Cardinality(UNION {SingleIds(rounds[i]) : i \in 1..3}) = 6
    /\ \A id \in Ids(players) : Get(history.singleCounts, id) = 1

\* The history after recordRound on the first n rounds of a list, taken in
\* generation order, on the empty history.
RECURSIVE Replayed(_, _)
Replayed(oldestFirst, n) ==
    IF n = 0 THEN createHistory
    ELSE recordRound(Replayed(oldestFirst, n - 1), oldestFirst[n])

\* The rounds list of the component is kept newest first.
OldestFirst(rs) == [i \in 1..Len(rs) |-> rs[Len(rs) + 1 - i]]

\* C29: in the component, whatever render a Next Round handler has captured
\* its history from, the history state is the empty history with recordRound
\* applied once for each displayed round, oldest first, and after Reset
\* Session the rounds list and the history are both empty.
C29_HistoryMatchesRounds ==
    /\ history = Replayed(OldestFirst(rounds), Len(rounds))
    /\ op = "handleReset" => (rounds = <<>> /\ history = createHistory)

\* C30: in the component, a click on Next Round is possible exactly when the
\* page shows between 4 and 8 active players, the round generation it starts
\* never fails, and the toast 'Could not generate round' is never shown.
C30_NextRoundNeverFails ==
    /\ [][op' = "handleGenerate" => renderedActiveCount \in 4..8]_vars
    /\ [](rendered = Render(players, activePlayers, rounds, history) =>
              (NextRoundEnabled <=>
                   Cardinality(activePlayers \cap Ids(players)) \in 4..8))
    /\ [](op = "handleGenerate" => (error = NoError /\ round # NoRound))
    /\ [](toast # "Could not generate round")

C30_Witness ==
    /\ op = "handleGenerate"
    /\ error = NoError
    /\ clicks >= 2
    /\ Len(rounds) > 0
    /\ renderedActiveCount = 4
    /\ Len(rendered.players) = 4
    /\ toast = ""

====
